---- MODULE Spec2Model ----
(***************************************************************************)
(* A model of the disaster-alert system: the backend's alert store with    *)
(* its two write paths (the Google ingestion run and POST /alerts), the    *)
(* external source adapters, and the MCP analysis functions (clustering,   *)
(* trends, risk scoring, dashboards).                                      *)
(*                                                                         *)
(* Coordinates are integers on a grid of GridStep degrees; the code's      *)
(* float comparisons  distance < 0.01  are made exactly, on squares.       *)
(* Scores are kept in tenths (0.5 -> 5, 0.3 -> 3), confidences in          *)
(* thirtieths (min(score / 3.0, 1.0) -> min(score10, 30) / 30).            *)
(* An optional value (a missing JSON key, Python's None) is a sequence of  *)
(* length 0 or 1.                                                          *)
(***************************************************************************)
EXTENDS Integers, Sequences, FiniteSets, TLC

VARIABLES
    \* ---- backend: the alert table and its writers
    store,          \* rows of the alert table, in insertion order
    GOOGLE_URL,     \* os.getenv("GOOGLE_ALERTS_API"): <<>> when unset
    feed,           \* the provider's current data.get("alerts", [])
    pcs,            \* each ingestion run's position in fetch_google_alerts
    pos,            \* each run's loop index into the feed it fetched
    req,            \* the POST /alerts request in flight
    posts,          \* number of POST /alerts requests handled so far
    \* ---- backend: the external source adapters and their aggregator
    OPENWEATHER_API_KEY, \* os.getenv("OPENWEATHER_API_KEY", ""): <<>> when empty
    providers,      \* each provider's condition and what its data amounts to
    results,        \* what each adapter returned to a direct caller
    ad_pc,          \* position in check_all_sources
    all_alerts,     \* the local list `all_alerts`
    \* ---- MCP: one analysis request over a snapshot
    alerts_data,    \* the JSON list GET /alerts returns (the snapshot)
    external_count, \* len(external_data["alerts"]) of GET /external-alerts
    response,       \* what the last analysis handler returned
    \* ---- MCP: the loop of analyze_location_clusters
    cl_impl,        \* which of the four copies of the function runs
    cl_idx,         \* number of alerts of alerts_data already assigned
    clusters,       \* the local list `clusters`
    cl_out,         \* the returned list, <<>> until the function returns
    \* ---- MCP: the scorers on counts
    counts,         \* what a scorer reads of a snapshot: the counts and flags
    levels,         \* the scorers' results for `counts`
    earlier,        \* the counts and results of the request before this one
    \* ---- MCP: the personalized recommendations
    shelters_data,  \* the JSON list GET /shelters returns
    location,       \* request.location, <<>> when the request carries none
    recommendation, \* what the last recommendation call returned
    rec_earlier     \* role, priority and validity of the request before this one

ingestVars == <<store, GOOGLE_URL, feed, pcs, pos, req, posts>>
analysisVars == <<alerts_data, external_count, response>>
clusterVars == <<cl_impl, cl_idx, clusters, cl_out>>
scoreVars == <<counts, levels, earlier>>

\* what each component's steps leave alone
adapterVars == <<OPENWEATHER_API_KEY, providers, results, ad_pc, all_alerts>>
recVars == <<shelters_data, location, recommendation, rec_earlier>>
notIngest == <<adapterVars, analysisVars, clusterVars, scoreVars, recVars>>
notAdapters == <<ingestVars, analysisVars, clusterVars, scoreVars, recVars>>
notCluster == <<ingestVars, adapterVars, response, scoreVars, recVars>>
notAnalysis == <<ingestVars, adapterVars, clusterVars, scoreVars, recVars>>
notScore == <<ingestVars, adapterVars, analysisVars, clusterVars, recVars>>
notRec == <<ingestVars, adapterVars, response, clusterVars, scoreVars>>

vars == <<store, GOOGLE_URL, feed, pcs, pos, req, posts,
          OPENWEATHER_API_KEY, providers, results, ad_pc, all_alerts,
          alerts_data, external_count, response,
          cl_impl, cl_idx, clusters, cl_out,
          counts, levels, earlier,
          shelters_data, location, recommendation, rec_earlier>>

----------------------------------------------------------------------------
(* Helpers *)

None == <<>>
Some(x) == <<x>>

\* dict.get(key, default) on an optional field
Get(opt, default) == IF opt = None THEN default ELSE opt[1]

RECURSIVE SeqsUpTo(_, _)
SeqsUpTo(S, n) ==
    IF n = 0 THEN {<<>>}
    ELSE LET shorter == SeqsUpTo(S, n - 1)
         IN  shorter \cup {Append(s, x) : s \in {t \in shorter : Len(t) = n - 1}, x \in S}

Min(a, b) == IF a < b THEN a ELSE b

\* sorted(S) for a finite set of integers
RECURSIVE Sorted(_)
Sorted(S) ==
    IF S = {} THEN <<>>
    ELSE LET m == CHOOSE x \in S : \A y \in S : x <= y
         IN  <<m>> \o Sorted(S \ {m})

\* A mutation of LastN: the slice is dropped.
LastNWhole(seq, n) == seq

\* seq[-n:]
LastN(seq, n) ==
    IF Len(seq) <= n THEN seq ELSE SubSeq(seq, Len(seq) - n + 1, Len(seq))

RECURSIVE SumSeq(_)
SumSeq(seq) == IF seq = <<>> THEN 0 ELSE Head(seq) + SumSeq(Tail(seq))

----------------------------------------------------------------------------
(* Backend: the alert store, fetch_google_alerts and POST /alerts *)

MaxBatch == 2       \* longest provider payload of one ingestion run
MaxPosts == 2       \* POST /alerts requests in one behaviour

Runs == {"run1", "run2"}
Titles == {"flood", "quake"}

\* The alerts a Google payload may carry: severity and coordinates are
\* optional keys; 7 is an out-of-range severity.
GoogleAlerts ==
    { [title |-> "flood", severity |-> None,    coordinates |-> None],
      [title |-> "quake", severity |-> Some(7), coordinates |-> Some([lat |-> 14, lng |-> -90])] }

\* The bodies POST /alerts may carry (AlertCreate): lat = 0 is a valid float
\* that the handler's falsy test rejects.
AlertCreates ==
    { [title |-> "flood", lat |-> 14, lon |-> -90, severity |-> 1],
      [title |-> "quake", lat |-> 14, lon |-> -90, severity |-> 9],
      [title |-> "quake", lat |-> 0,  lon |-> -90, severity |-> 2] }

NoReq == [state |-> "idle", id |-> 0, notified |-> ""]

\* A mutation of TitleExists: the lookup never finds a row.
TitleExistsNever(rows, title) == FALSE

\* select(Alert).where(Alert.title == title) ... .first()
TitleExists(rows, title) == \E i \in 1..Len(rows) : rows[i].title = title

\* Alert(title=..., severity=..., lat=..., lon=..., source="GOOGLE") as persisted
GoogleRow(rows, alert) ==
    [id         |-> Len(rows) + 1,
     title      |-> alert.title,
     severity   |-> Get(alert.severity, 2),
     lat        |-> IF alert.coordinates = None THEN 0 ELSE alert.coordinates[1].lat,
     lon        |-> IF alert.coordinates = None THEN 0 ELSE alert.coordinates[1].lng,
     source     |-> "GOOGLE",
     alert_type |-> ""]

\* Alert(title=..., lat=..., lon=..., severity=..., alert_type=...) as persisted
PostRow(rows, body) ==
    [id         |-> Len(rows) + 1,
     title      |-> body.title,
     severity   |-> body.severity,
     lat        |-> body.lat,
     lon        |-> body.lon,
     source     |-> "",
     alert_type |-> "general"]

IngestInit ==
    /\ store = <<>>
    /\ GOOGLE_URL \in {None, Some("url")}
    /\ feed \in SeqsUpTo(GoogleAlerts, MaxBatch)
    /\ pcs = [r \in Runs |-> "start"]
    /\ pos = [r \in Runs |-> 0]
    /\ req = NoReq
    /\ posts = 0

\* r = requests.get(GOOGLE_URL); data = r.json(): no try/except around either,
\* so an unset URL, an unreachable provider or a malformed body raises out of
\* fetch_google_alerts. The call passes no timeout: a provider that accepts
\* the connection and never answers leaves the run blocked in requests.get.
\* Otherwise the loop starts on the feed.
GoogleGet(r) ==
    /\ pcs[r] = "start"
    /\ \E outcome \in {"ok", "unreachable", "malformed", "silent"} :
         pcs' = [pcs EXCEPT ![r] =
                   IF GOOGLE_URL = None THEN "raised"
                   ELSE IF outcome = "silent" THEN "hung"
                   ELSE IF outcome # "ok" THEN "raised"
                   ELSE IF feed = <<>> THEN "done" ELSE "check"]
    /\ pos' = [pos EXCEPT ![r] = 1]
    /\ UNCHANGED <<store, GOOGLE_URL, feed, req, posts>>
    /\ UNCHANGED notIngest

\* the for loop moves to the next alert of the feed, or ends
NextAlert(r, after) ==
    IF pos[r] < Len(feed)
    THEN /\ pos' = [pos EXCEPT ![r] = @ + 1]
         /\ pcs' = [pcs EXCEPT ![r] = "check"]
    ELSE /\ pos' = pos
         /\ pcs' = [pcs EXCEPT ![r] = after]

\* exists = session.exec(select(Alert).where(Alert.title == title)).first()
\* and the test `if not exists`: position "insert" is the branch taken when
\* no row was found.
GoogleCheck(r) ==
    /\ pcs[r] = "check"
    /\ IF TitleExists(store, feed[pos[r]].title)
       THEN NextAlert(r, "done")
       ELSE /\ pcs' = [pcs EXCEPT ![r] = "insert"]
            /\ pos' = pos
    /\ UNCHANGED <<store, GOOGLE_URL, feed, req, posts>>
    /\ UNCHANGED notIngest

\* A mutation of CommitFailed: the failure also undoes the row committed
\* before it.
CommitFailedUndoesEarlier(rows) ==
    IF rows = <<>> THEN rows ELSE SubSeq(rows, 1, Len(rows) - 1)

\* the table after a commit that raised: each candidate has its own
\* session.commit(), so only the pending row is lost
CommitFailed(rows) == rows

\* session.add(new); session.commit(); session.refresh(new): the commit either
\* persists the row or the store fails and the exception leaves the function.
GoogleInsert(r) ==
    /\ pcs[r] = "insert"
    /\ \E committed \in BOOLEAN :
         IF committed
         THEN /\ store' = Append(store, GoogleRow(store, feed[pos[r]]))
              /\ NextAlert(r, "done")
         ELSE /\ pcs' = [pcs EXCEPT ![r] = "commit_raised"]
              /\ store' = CommitFailed(store)
              /\ UNCHANGED pos
    /\ UNCHANGED <<GOOGLE_URL, feed, req, posts>>
    /\ UNCHANGED notIngest

\* if not alert_data.title or not alert_data.lat or not alert_data.lon: 400
PostValid(body) == body.title # "" /\ body.lat # 0 /\ body.lon # 0

\* create_alert up to its commit: no existence check of any kind precedes
\* session.add / session.commit.
CreateAlertCommit ==
    /\ req.state = "idle"
    /\ posts < MaxPosts
    /\ posts' = posts + 1
    /\ \E body \in AlertCreates, committed \in BOOLEAN :
         IF ~PostValid(body)
         THEN /\ req' = [state |-> "400", id |-> 0, notified |-> ""]
              /\ UNCHANGED store
         ELSE IF ~committed
         THEN /\ req' = [state |-> "500", id |-> 0, notified |-> ""]
              /\ UNCHANGED store
         ELSE /\ store' = Append(store, PostRow(store, body))
              /\ req' = [state |-> "committed", id |-> Len(store) + 1, notified |-> ""]
    /\ UNCHANGED <<GOOGLE_URL, feed, pcs, pos>>
    /\ UNCHANGED notIngest

\* what the dispatch of notify_all_services may do: SMS and push sent, the SMS
\* not sent (send_alert_sms returns False), a push failing inside
\* send_push_notification, an exception anywhere in the dispatch
DispatchOutcomes == {"sent", "sms_failed", "push_failed", "dispatch_raised"}

\* A mutation of RespondAfterNotify: a failed dispatch reaches the handler's
\* outer except and is answered 500.
RespondAfterNotifyPropagating(outcome) == IF outcome = "sent" THEN "201" ELSE "500"

\* try: notify_all(alert) / except Exception: log; return alert. notify_all
\* itself catches every Exception of the dispatch, so the handler answers 201
\* whatever the dispatch did.
RespondAfterNotify(outcome) == "201"

CreateAlertNotify ==
    /\ req.state = "committed"
    /\ \E outcome \in DispatchOutcomes :
         req' = [state |-> RespondAfterNotify(outcome), id |-> req.id, notified |-> outcome]
    /\ UNCHANGED <<store, GOOGLE_URL, feed, pcs, pos, posts>>
    /\ UNCHANGED notIngest

\* the response is sent; the handler is free for the next request
CreateAlertReturn ==
    /\ req.state \in {"201", "400", "500"}
    /\ req' = NoReq
    /\ UNCHANGED <<store, GOOGLE_URL, feed, pcs, pos, posts>>
    /\ UNCHANGED notIngest

IngestStep ==
    \/ \E r \in Runs : GoogleGet(r)
    \/ \E r \in Runs : GoogleCheck(r)
    \/ \E r \in Runs : GoogleInsert(r)
    \/ CreateAlertCommit
    \/ CreateAlertNotify
    \/ CreateAlertReturn

IngestIdle ==
    /\ store = <<>>
    /\ GOOGLE_URL = None
    /\ feed = <<>>
    /\ pcs = [r \in Runs |-> "start"]
    /\ pos = [r \in Runs |-> 0]
    /\ req = NoReq
    /\ posts = 0

----------------------------------------------------------------------------
(* MCP: the alert dicts of a snapshot *)

MaxAlerts == 3      \* longest snapshot of the clustering and risk requests
GridMax == 3        \* latitudes 0..GridMax of the clustering inputs
NumDays == 4        \* creation dates 1..NumDays; requests are made on the last
MaxTrendAlerts == 4 \* longest snapshot of the trend requests
MaxExternal == 1    \* most external alerts GET /external-alerts returns

Radius == 2         \* 0.01 degrees, on a grid of 0.005 degrees

Today == NumDays

\* One alert of GET /alerts: every key is optional to the readers, which use
\* alert.get(key, default) or alert[key].
AlertJson(lat, lon, severity, created_at) ==
    [lat |-> lat, lon |-> lon, severity |-> severity, created_at |-> created_at]

Lat(a) == Get(a.lat, 0)
Lon(a) == Get(a.lon, 0)
Severity(a) == Get(a.severity, 1)

\* A mutation of HighSeverityIdx: > 3 for >= 3.
HighSeverityAbove3(data) == {i \in 1..Len(data) : Severity(data[i]) > 3}

\* [a for a in alerts_data if a.get('severity', 1) >= 3], as indices
HighSeverityIdx(data) == {i \in 1..Len(data) : Severity(data[i]) >= 3}

----------------------------------------------------------------------------
(* MCP: analyze_location_clusters, four copies *)

ClusterImpls == {"main", "advanced", "engine", "decision"}

\* A centre (avg_lat, avg_lon) is kept as the two sums and the member count.
Center(lat_sum, lon_sum, n) == [lat_sum |-> lat_sum, lon_sum |-> lon_sum, n |-> n]

\* A mutation of Within: a distance equal to the radius counts as inside.
WithinOrAt(lat, lon, c) ==
    (lat * c.n - c.lat_sum) * (lat * c.n - c.lat_sum)
      + (lon * c.n - c.lon_sum) * (lon * c.n - c.lon_sum) <= Radius * Radius * c.n * c.n

\* distance = ((lat - cluster_lat)**2 + (lon - cluster_lon)**2)**0.5
\* distance < 0.01, both sides squared and scaled by the member count
Within(lat, lon, c) ==
    (lat * c.n - c.lat_sum) * (lat * c.n - c.lat_sum)
      + (lon * c.n - c.lon_sum) * (lon * c.n - c.lon_sum) < Radius * Radius * c.n * c.n

\* A mutation of FoundCluster: the break is missing, the last match wins.
FoundClusterLast(cls, lat, lon) ==
    IF \E j \in 1..Len(cls) : Within(lat, lon, cls[j].center)
    THEN CHOOSE j \in 1..Len(cls) :
           /\ Within(lat, lon, cls[j].center)
           /\ \A k \in (j + 1)..Len(cls) : ~Within(lat, lon, cls[k].center)
    ELSE 0

\* the inner for loop with its break: the first cluster within the radius,
\* 0 when there is none
FoundCluster(cls, lat, lon) ==
    IF \E j \in 1..Len(cls) : Within(lat, lon, cls[j].center)
    THEN CHOOSE j \in 1..Len(cls) :
           /\ Within(lat, lon, cls[j].center)
           /\ \A k \in 1..(j - 1) : ~Within(lat, lon, cls[k].center)
    ELSE 0

\* A mutation of MeanCenter: the sums are not divided by the member count.
SumCenter(data, members) ==
    Center(SumSeq([k \in 1..Len(members) |-> Lat(data[members[k]])]),
           SumSeq([k \in 1..Len(members) |-> Lon(data[members[k]])]),
           1)

\* avg_lat, avg_lon over found_cluster['alerts']
MeanCenter(data, members) ==
    Center(SumSeq([k \in 1..Len(members) |-> Lat(data[members[k]])]),
           SumSeq([k \in 1..Len(members) |-> Lon(data[members[k]])]),
           Len(members))

\* The cluster after alert i joined it. main, advanced and decision move the
\* centre to the mean of the members; engine leaves it at the first member.
\* Only main keeps 'count' up to date.
Joined(impl, data, c, i) ==
    LET members == Append(c.alerts, i)
    IN  [center |-> IF impl = "engine" THEN c.center ELSE MeanCenter(data, members),
         alerts |-> members,
         count  |-> IF impl = "main" THEN Len(members) ELSE c.count]

\* One pass of the outer for loop: alert number i of the input.
AssignAlert(impl, data, cls, i) ==
    LET lat == Lat(data[i])
        lon == Lon(data[i])
        j   == FoundCluster(cls, lat, lon)
    IN  IF j # 0
        THEN [cls EXCEPT ![j] = Joined(impl, data, cls[j], i)]
        ELSE Append(cls, [center |-> Center(lat, lon, 1), alerts |-> <<i>>, count |-> 1])

\* A mutation of ClusterKept: >= 1 for > 1.
ClusterKeptFromOne(impl, c) == IF impl = "main" THEN c.count >= 1 ELSE Len(c.alerts) >= 1

\* the returned comprehension: c['count'] > 1 in main, len(c['alerts']) > 1 in
\* the other copies
ClusterKept(impl, c) == IF impl = "main" THEN c.count > 1 ELSE Len(c.alerts) > 1

RECURSIVE FilterClusters(_, _)
FilterClusters(impl, cls) ==
    IF cls = <<>> THEN <<>>
    ELSE LET rest == FilterClusters(impl, Tail(cls))
         IN  IF ClusterKept(impl, Head(cls)) THEN <<Head(cls)>> \o rest ELSE rest

RECURSIVE BuildClusters(_, _, _)
BuildClusters(impl, data, n) ==
    IF n = 0 THEN <<>>
    ELSE AssignAlert(impl, data, BuildClusters(impl, data, n - 1), n)

\* the whole function, as the handlers call it
analyze_location_clusters(impl, data) ==
    FilterClusters(impl, BuildClusters(impl, data, Len(data)))

\* The loop, one alert per step.
ClusterPoints == {AlertJson(Some(x), Some(y), Some(1), Some(Today)) : x \in 0..GridMax, y \in 0..1}

ClusterInit ==
    /\ alerts_data \in SeqsUpTo(ClusterPoints, MaxAlerts)
    /\ external_count = 0
    /\ cl_impl \in ClusterImpls
    /\ cl_idx = 0
    /\ clusters = <<>>
    /\ cl_out = None

ClusterAssign ==
    /\ cl_out = None
    /\ cl_idx < Len(alerts_data)
    /\ clusters' = AssignAlert(cl_impl, alerts_data, clusters, cl_idx + 1)
    /\ cl_idx' = cl_idx + 1
    /\ UNCHANGED <<cl_impl, cl_out, alerts_data, external_count>>
    /\ UNCHANGED notCluster

ClusterReturn ==
    /\ cl_out = None
    /\ cl_idx = Len(alerts_data)
    /\ cl_out' = Some(FilterClusters(cl_impl, clusters))
    /\ UNCHANGED <<cl_impl, cl_idx, clusters, alerts_data, external_count>>
    /\ UNCHANGED notCluster

ClusterStep == ClusterAssign \/ ClusterReturn

ClusterIdle ==
    /\ cl_impl = "main"
    /\ cl_idx = 0
    /\ clusters = <<>>
    /\ cl_out = None

----------------------------------------------------------------------------
(* MCP: analyze_trends, three copies *)

TrendImpls == {"main", "advanced", "engine"}
TrendWindowMain == 3
TrendWindowAdvanced == 7

TrendResult(trend, recent_counts) ==
    [trend |-> trend, increasing |-> (trend = "increasing"), recent_counts |-> recent_counts]

\* daily_count: the dates that parsed, and how many alerts carry each
DatesOf(data) == {data[i].created_at[1] : i \in {k \in 1..Len(data) : data[k].created_at # None}}
DailyCount(data, date) == Cardinality({i \in 1..Len(data) : data[i].created_at = Some(date)})

\* is_recent(timestamp, hours=24): utcnow() - alert_time < 24 h, on timestamps
\* one per day; a missing timestamp is not recent.
is_recent(created_at) == created_at # None /\ Today - created_at[1] < 1

\* the part of analyze_trends after daily_count is built (main and advanced)
TrendOfDays(data, window) ==
    LET recent_dates == LastN(Sorted(DatesOf(data)), window)
        recent_counts == [k \in 1..Len(recent_dates) |-> DailyCount(data, recent_dates[k])]
    IN  IF Len(recent_dates) < 2
        THEN TrendResult("insufficient_data", <<>>)
        ELSE TrendResult(IF recent_counts[Len(recent_counts)] > recent_counts[1]
                         THEN "increasing" ELSE "decreasing", recent_counts)

\* A mutation of analyze_trends_main: the early return for an empty list is
\* dropped.
analyze_trends_main_no_empty_case(data) == TrendOfDays(data, TrendWindowMain)

\* main.py: an alert whose created_at is missing or does not parse is skipped
analyze_trends_main(data) ==
    IF data = <<>> THEN TrendResult("stable", <<>>)
    ELSE TrendOfDays(data, TrendWindowMain)

\* advanced_mcp.py: no try/except, a missing created_at raises
analyze_trends_advanced(data) ==
    IF data = <<>> THEN TrendResult("stable", <<>>)
    ELSE IF \E i \in 1..Len(data) : data[i].created_at = None
    THEN TrendResult("raised", <<>>)
    ELSE TrendOfDays(data, TrendWindowAdvanced)

\* recommendation_engine.py: the share of the last 24 hours; the short-list
\* result has no 'increasing' key, which reads as false
analyze_trends_engine(data) ==
    IF Len(data) < 2 THEN TrendResult("stable", <<>>)
    ELSE IF \E i \in 1..Len(data) : data[i].created_at = None
    THEN TrendResult("raised", <<>>)
    ELSE LET recent == {i \in 1..Len(data) : is_recent(data[i].created_at)}
         IN  TrendResult(IF 10 * Cardinality(recent) > 3 * Len(data)
                         THEN "increasing" ELSE "stable", <<>>)

analyze_trends(impl, data) ==
    CASE impl = "main"     -> analyze_trends_main(data)
      [] impl = "advanced" -> analyze_trends_advanced(data)
      [] impl = "engine"   -> analyze_trends_engine(data)

----------------------------------------------------------------------------
(* MCP: risk scoring *)

\* A mutation of RiskScore10: the severity term is subtracted.
RiskScore10Minus(n_factors, n_high) == n_factors * 5 - n_high * 3

\* risk_score = len(risk_factors) * 0.5 + len(high_severity) * 0.3, in tenths
RiskScore10(n_factors, n_high) == n_factors * 5 + n_high * 3

\* main.py risk_assessment: >= 2 HIGH, >= 1 MEDIUM, else LOW
RiskLevelMain(score10) ==
    IF score10 >= 20 THEN "HIGH" ELSE IF score10 >= 10 THEN "MEDIUM" ELSE "LOW"

\* advanced_mcp.py risk_assessment: the same thresholds, Spanish labels
RiskLevelAdvanced(score10) ==
    IF score10 >= 20 THEN "ALTO" ELSE IF score10 >= 10 THEN "MEDIO" ELSE "BAJO"

\* confidence = min(risk_score / 3.0, 1.0), in thirtieths
Confidence30(score10) == Min(score10, 30)

\* A mutation of HighSeverityFactor: the factor is appended unconditionally.
HighSeverityFactorAlways(n_high) == << <<"high_severity", n_high>> >>

\* if high_severity: risk_factors.append(...); recommendations.append(...)
HighSeverityFactor(n_high) ==
    IF n_high > 0 THEN << <<"high_severity", n_high>> >> ELSE <<>>

\* if clusters: ...
ClusterFactor(n_clusters) ==
    IF n_clusters > 0 THEN << <<"concentration", n_clusters>> >> ELSE <<>>

\* if external_data.get('alerts'): ...
ExternalFactor(n_external) ==
    IF n_external > 0 THEN << <<"external", n_external>> >> ELSE <<>>

\* if trends.get('increasing'): ...
TrendFactor(increasing) ==
    IF increasing THEN << <<"increasing", 0>> >> ELSE <<>>

\* each factor appends one recommendation string beside it
RecommendationsFor(factors) == [k \in 1..Len(factors) |-> factors[k][1]]

\* main.py risk_assessment from the factor collection on: three factors
AssessMain(n_high, n_clusters, increasing) ==
    LET factors == HighSeverityFactor(n_high) \o ClusterFactor(n_clusters)
                     \o TrendFactor(increasing)
        score10 == RiskScore10(Len(factors), n_high)
    IN  [risk_level      |-> RiskLevelMain(score10),
         confidence      |-> Some(Confidence30(score10)),
         factors         |-> factors,
         recommendations |-> RecommendationsFor(factors)]

\* advanced_mcp.py risk_assessment: four factors, the external one third
AssessAdvanced(n_high, n_clusters, n_external, increasing) ==
    LET factors == HighSeverityFactor(n_high) \o ClusterFactor(n_clusters)
                     \o ExternalFactor(n_external) \o TrendFactor(increasing)
        score10 == RiskScore10(Len(factors), n_high)
    IN  [risk_level      |-> RiskLevelAdvanced(score10),
         confidence      |-> Some(Confidence30(score10)),
         factors         |-> factors,
         recommendations |-> RecommendationsFor(factors)]

\* risk_score = (high_severity_count * 0.6) + (recent_count * 0.4), in tenths
DashboardScore10(high_severity_count, recent_count) ==
    high_severity_count * 6 + recent_count * 4

\* main.py calculate_risk_level
calculate_risk_level(high_severity_count, recent_count) ==
    LET risk_score == DashboardScore10(high_severity_count, recent_count)
    IN  IF risk_score > 50 THEN "CRITICAL"
        ELSE IF risk_score > 30 THEN "HIGH"
        ELSE IF risk_score > 10 THEN "MEDIUM"
        ELSE "LOW"

\* advanced_mcp.py calculate_risk_level(severity_count, recent_count): total is
\* sum(severity_count.values()), high is severity_count[3] + severity_count[4]
calculate_risk_level_advanced(total_alerts, high_severity, recent_count) ==
    LET risk_score == DashboardScore10(high_severity, recent_count)
    IN  IF total_alerts = 0 THEN "BAJO"
        ELSE IF risk_score > 50 THEN "CRITICO"
        ELSE IF risk_score > 30 THEN "ALTO"
        ELSE IF risk_score > 10 THEN "MEDIO"
        ELSE "BAJO"

\* main.py get_risk_factors(alerts_data, external_data)
get_risk_factors(data, n_external) ==
    HighSeverityFactor(Cardinality(HighSeverityIdx(data)))
      \o ClusterFactor(Len(analyze_location_clusters("main", data)))
      \o ExternalFactor(n_external)

----------------------------------------------------------------------------
(* MCP: the scorers applied to counts *)

MaxCount == 12      \* largest count of high-severity or of recent alerts

NoCounts == [high |-> 0, clusters |-> 0, external |-> 0, increasing |-> FALSE, recent |-> 0]
NoLevels == [scored |-> FALSE, main |-> "", confidence |-> None, advanced |-> "",
             dashboard |-> ""]

\* the three scorers on one set of counts
Scored(c) ==
    [scored    |-> TRUE,
     main      |-> AssessMain(c.high, c.clusters, c.increasing).risk_level,
     confidence |-> AssessMain(c.high, c.clusters, c.increasing).confidence,
     advanced  |-> AssessAdvanced(c.high, c.clusters, c.external, c.increasing).risk_level,
     dashboard |-> calculate_risk_level(c.high, c.recent)]

NoEarlier == [counts |-> NoCounts, levels |-> NoLevels]

ScoreInit ==
    /\ counts \in [high : 0..MaxCount, clusters : 0..2, external : 0..MaxExternal,
                   increasing : BOOLEAN, recent : 0..MaxCount]
    /\ levels = NoLevels
    /\ earlier = NoEarlier

\* a request scores the current snapshot
Score ==
    /\ ~levels.scored
    /\ levels' = Scored(counts)
    /\ UNCHANGED <<counts, earlier>>
    /\ UNCHANGED notScore

\* the next request sees more alerts of severity >= 3 and nothing else changed
ScoreMoreHighSeverity ==
    /\ levels.scored
    /\ ~earlier.levels.scored
    /\ \E more \in 1..(MaxCount - counts.high) :
         /\ counts' = [counts EXCEPT !.high = @ + more]
         /\ levels' = Scored(counts')
    /\ earlier' = [counts |-> counts, levels |-> levels]
    /\ UNCHANGED notScore

ScoreStep == Score \/ ScoreMoreHighSeverity

ScoreIdle == counts = NoCounts /\ levels = NoLevels /\ earlier = NoEarlier

----------------------------------------------------------------------------
(* MCP: the analysis handlers on a snapshot *)

NoResponse == [handler |-> "none", impl |-> "", http |-> "", status |-> "", body |-> <<>>]

Raised(handler, impl, http) ==
    [handler |-> handler, impl |-> impl, http |-> http, status |-> "raised", body |-> <<>>]

Returned(handler, impl, http, body) ==
    [handler |-> handler, impl |-> impl, http |-> http, status |-> "returned", body |-> body]

HttpOutcomes == {"ok", "non200", "exception"}

\* alerts_response.json() if alerts_response.status_code == 200 else []
Fetched(http, data) == IF http = "ok" THEN data ELSE <<>>

\* main.py risk_assessment: the whole body is in a try; a failed fetch gives
\* the UNKNOWN assessment of the except branch
risk_assessment_main(http, data) ==
    IF http = "exception"
    THEN Returned("risk_assessment", "main", http,
                  [risk_level      |-> "UNKNOWN",
                   confidence      |-> Some(0),
                   factors         |-> << <<"error", 0>> >>,
                   recommendations |-> <<"check_backend">>])
    ELSE LET alerts == Fetched(http, data)
         IN  Returned("risk_assessment", "main", http,
                      AssessMain(Cardinality(HighSeverityIdx(alerts)),
                                 Len(analyze_location_clusters("main", alerts)),
                                 analyze_trends_main(alerts).increasing))

\* advanced_mcp.py risk_assessment: nothing is caught
risk_assessment_advanced(http, ext_ok, data, n_external) ==
    LET alerts == Fetched(http, data)
        trend  == analyze_trends_advanced(alerts)
    IN  IF http = "exception" \/ trend.trend = "raised"
        THEN Raised("risk_assessment", "advanced", http)
        ELSE Returned("risk_assessment", "advanced", http,
                      AssessAdvanced(Cardinality(HighSeverityIdx(alerts)),
                                     Len(analyze_location_clusters("advanced", alerts)),
                                     IF ext_ok THEN n_external ELSE 0,
                                     trend.increasing))

\* main.py analytics_dashboard: both fetches are gathered with
\* return_exceptions=True, a failed one counts as an empty list
analytics_dashboard(http, ext_ok, data, n_external) ==
    LET alerts   == Fetched(http, data)
        external == IF ext_ok THEN n_external ELSE 0
        high     == Cardinality(HighSeverityIdx(alerts))
        recent   == Cardinality({i \in 1..Len(alerts) : is_recent(alerts[i].created_at)})
    IN  Returned("analytics_dashboard", "main", http,
                 [summary |-> [total_alerts    |-> Len(alerts),
                               external_alerts |-> external,
                               recent_24h      |-> recent,
                               high_severity   |-> Some(high)],
                  risk_assessment |-> [level      |-> calculate_risk_level(high, recent),
                                       factors    |-> get_risk_factors(alerts, external),
                                       confidence |-> Some(24)],
                  trends |-> analyze_trends_main(alerts)])

\* advanced_mcp.py get_analytics_dashboard: nothing is caught, alert['created_at']
\* raises on a missing key; no high-severity count, no confidence, no factors
get_analytics_dashboard(http, ext_ok, data, n_external) ==
    LET alerts == Fetched(http, data)
        recent == Cardinality({i \in 1..Len(alerts) : is_recent(alerts[i].created_at)})
        high34 == Cardinality({i \in 1..Len(alerts) : Severity(alerts[i]) \in {3, 4}})
    IN  IF http = "exception" \/ \E i \in 1..Len(alerts) : alerts[i].created_at = None
        THEN Raised("analytics_dashboard", "advanced", http)
        ELSE Returned("analytics_dashboard", "advanced", http,
                      [summary |-> [total_alerts    |-> Len(alerts),
                                    external_alerts |-> IF ext_ok THEN n_external ELSE 0,
                                    recent_24h      |-> recent,
                                    high_severity   |-> None],
                       risk_assessment |-> [level      |-> calculate_risk_level_advanced(Len(alerts), high34, recent),
                                            factors    |-> <<>>,
                                            confidence |-> None],
                       trends |-> analyze_trends_advanced(alerts)])

RiskAlerts ==
    {AlertJson(Some(x), Some(0), Some(sev), Some(day)) :
        x \in {0, 5}, sev \in {2, 3}, day \in {Today - 1, Today}}

\* five alerts at one coordinate with severities 4, 4, 3, 2, 1, one date
Scenario(x, y, day) ==
    [k \in 1..5 |-> AlertJson(Some(x), Some(y), Some(<<4, 4, 3, 2, 1>>[k]), Some(day))]

RiskInit ==
    /\ alerts_data \in SeqsUpTo(RiskAlerts, MaxAlerts)
                         \cup {Scenario(x, 0, day) : x \in {0, 5}, day \in {Today - 1, Today}}
    /\ external_count \in 0..MaxExternal
    /\ response = NoResponse

RiskAssessmentMain ==
    /\ response = NoResponse
    /\ \E http \in HttpOutcomes :
         response' = risk_assessment_main(http, alerts_data)
    /\ UNCHANGED <<alerts_data, external_count>>
    /\ UNCHANGED notAnalysis

RiskAssessmentAdvanced ==
    /\ response = NoResponse
    /\ \E http \in HttpOutcomes, ext_ok \in BOOLEAN :
         response' = risk_assessment_advanced(http, ext_ok, alerts_data, external_count)
    /\ UNCHANGED <<alerts_data, external_count>>
    /\ UNCHANGED notAnalysis

AnalyticsDashboardMain ==
    /\ response = NoResponse
    /\ \E http \in HttpOutcomes, ext_ok \in BOOLEAN :
         response' = analytics_dashboard(http, ext_ok, alerts_data, external_count)
    /\ UNCHANGED <<alerts_data, external_count>>
    /\ UNCHANGED notAnalysis

AnalyticsDashboardAdvanced ==
    /\ response = NoResponse
    /\ \E http \in HttpOutcomes, ext_ok \in BOOLEAN :
         response' = get_analytics_dashboard(http, ext_ok, alerts_data, external_count)
    /\ UNCHANGED <<alerts_data, external_count>>
    /\ UNCHANGED notAnalysis

RiskStep ==
    \/ RiskAssessmentMain
    \/ RiskAssessmentAdvanced
    \/ AnalyticsDashboardMain
    \/ AnalyticsDashboardAdvanced

\* analyze_trends called on a snapshot
TrendAlerts ==
    {AlertJson(Some(0), Some(0), Some(1), created_at) :
        created_at \in {None} \cup {Some(day) : day \in 1..NumDays}}

TrendInit ==
    /\ alerts_data \in SeqsUpTo(TrendAlerts, MaxTrendAlerts)
    /\ external_count = 0
    /\ response = NoResponse

AnalyzeTrends ==
    /\ response = NoResponse
    /\ \E impl \in TrendImpls :
         response' = LET result == analyze_trends(impl, alerts_data)
                     IN  IF result.trend = "raised"
                         THEN Raised("analyze_trends", impl, "")
                         ELSE Returned("analyze_trends", impl, "", result)
    /\ UNCHANGED <<alerts_data, external_count>>
    /\ UNCHANGED notAnalysis

TrendStep == AnalyzeTrends

\* snapshots given by how many alerts each day created, oldest day first
MaxPerDay == 2

RECURSIVE DaysSnapshot(_, _)
DaysSnapshot(per_day, day) ==
    IF day = 0 THEN <<>>
    ELSE DaysSnapshot(per_day, day - 1)
           \o [k \in 1..per_day[day] |-> AlertJson(Some(0), Some(0), Some(1), Some(day))]

TrendDaysInit ==
    /\ \E per_day \in [1..NumDays -> 0..MaxPerDay] :
         alerts_data = DaysSnapshot(per_day, NumDays)
    /\ external_count = 0
    /\ response = NoResponse

AnalysisIdle == alerts_data = <<>> /\ external_count = 0 /\ response = NoResponse

----------------------------------------------------------------------------
(* Backend: the external source adapters and check_all_sources *)

MaxAdapterAlerts == 1

Adapters == {"open_meteo", "openweather", "gdacs", "nasa_power"}

SourceOf(a) ==
    CASE a = "open_meteo"  -> "OPEN_METEO"
      [] a = "openweather" -> "OPENWEATHER"
      [] a = "gdacs"       -> "GDACS"
      [] a = "nasa_power"  -> "NASA_POWER"

\* what a provider's data makes its adapter report: the thresholds that fire
Conditions == {"storm"}

\* a provider that answers 200 with usable JSON, one that cannot be reached or
\* answers an error status, one whose body does not parse or lacks the keys,
\* one that accepts the connection and never answers
ProviderStates ==
    {[state |-> "ok", data |-> d] : d \in SeqsUpTo(Conditions, MaxAdapterAlerts)}
      \cup {[state |-> st, data |-> <<>>] : st \in {"unreachable", "malformed", "silent"}}

\* what a call may do: return a value (None or a list) or raise
Returns(value) == [status |-> "returned", value |-> value]
Raises == [status |-> "raised", value |-> None]
NotCalled == [status |-> "not called", value |-> None]
\* self.session.timeout = 30 sets an attribute requests never reads, and no
\* session.get passes timeout=: the call waits for the provider without limit
Hangs == [status |-> "hung", value |-> None]

\* the alerts list an adapter builds from the provider's data
AlertsOf(a, provider) ==
    [k \in 1..Len(provider.data) |-> [title |-> provider.data[k], source |-> SourceOf(a)]]

\* the body of an adapter inside try / except Exception: return None
Guarded(a, provider) ==
    IF provider.state = "ok" THEN Returns(Some(AlertsOf(a, provider)))
    ELSE IF provider.state = "silent" THEN Hangs
    ELSE Returns(None)

fetch_open_meteo_data(provider) == Guarded("open_meteo", provider)

\* if not OPENWEATHER_API_KEY: return None
fetch_weather_alerts(key, provider) ==
    IF key = None THEN Returns(None) ELSE Guarded("openweather", provider)

\* A mutation of fetch_gdacs_alerts: no try/except around the request.
fetch_gdacs_alerts_unguarded(provider) ==
    IF provider.state = "ok" THEN Returns(Some(AlertsOf("gdacs", provider)))
    ELSE IF provider.state = "silent" THEN Hangs
    ELSE Raises

fetch_gdacs_alerts(provider) == Guarded("gdacs", provider)

fetch_nasa_power_data(provider) == Guarded("nasa_power", provider)

CallOf(a) ==
    CASE a = "open_meteo"  -> fetch_open_meteo_data(providers[a])
      [] a = "openweather" -> fetch_weather_alerts(OPENWEATHER_API_KEY, providers[a])
      [] a = "gdacs"       -> fetch_gdacs_alerts(providers[a])
      [] a = "nasa_power"  -> fetch_nasa_power_data(providers[a])

AdaptersInit ==
    /\ OPENWEATHER_API_KEY \in {None, Some("key")}
    /\ providers \in [Adapters -> ProviderStates]
    /\ results = [a \in Adapters |-> NotCalled]
    /\ ad_pc = "idle"
    /\ all_alerts = <<>>

\* a caller invokes one adapter method directly
CallAdapter(a) ==
    /\ ad_pc = "idle"
    /\ results[a] = NotCalled
    /\ results' = [results EXCEPT ![a] = CallOf(a)]
    /\ UNCHANGED <<OPENWEATHER_API_KEY, providers, ad_pc, all_alerts>>
    /\ UNCHANGED notAdapters

\* all_alerts = [] and entry into the try block
CheckAllSources ==
    /\ ad_pc = "idle"
    /\ ad_pc' = "open_meteo"
    /\ all_alerts' = <<>>
    /\ UNCHANGED <<OPENWEATHER_API_KEY, providers, results>>
    /\ UNCHANGED notAdapters

\* x_alerts = self.fetch_x(); if x_alerts: all_alerts.extend(x_alerts)
\* an exception leaves the try block for `except Exception`, then the return
Collect(r, next) ==
    IF r.status = "raised"
    THEN /\ ad_pc' = "done"
         /\ UNCHANGED all_alerts
    ELSE IF r.status = "hung"
    THEN /\ ad_pc' = "hung"
         /\ UNCHANGED all_alerts
    ELSE /\ ad_pc' = next
         /\ all_alerts' = IF Len(r.value) > 0 /\ Len(r.value[1]) > 0
                          THEN all_alerts \o r.value[1]
                          ELSE all_alerts

CollectOpenMeteo ==
    /\ ad_pc = "open_meteo"
    /\ Collect(fetch_open_meteo_data(providers["open_meteo"]), "openweather")
    /\ UNCHANGED <<OPENWEATHER_API_KEY, providers, results>>
    /\ UNCHANGED notAdapters

\* if OPENWEATHER_API_KEY: the adapter is called only when the key is set
CollectOpenWeather ==
    /\ ad_pc = "openweather"
    /\ IF OPENWEATHER_API_KEY # None
       THEN Collect(fetch_weather_alerts(OPENWEATHER_API_KEY, providers["openweather"]),
                    "gdacs")
       ELSE /\ ad_pc' = "gdacs"
            /\ UNCHANGED all_alerts
    /\ UNCHANGED <<OPENWEATHER_API_KEY, providers, results>>
    /\ UNCHANGED notAdapters

CollectGdacs ==
    /\ ad_pc = "gdacs"
    /\ Collect(fetch_gdacs_alerts(providers["gdacs"]), "nasa_power")
    /\ UNCHANGED <<OPENWEATHER_API_KEY, providers, results>>
    /\ UNCHANGED notAdapters

CollectNasaPower ==
    /\ ad_pc = "nasa_power"
    /\ Collect(fetch_nasa_power_data(providers["nasa_power"]), "done")
    /\ UNCHANGED <<OPENWEATHER_API_KEY, providers, results>>
    /\ UNCHANGED notAdapters

AdaptersStep ==
    \/ \E a \in Adapters : CallAdapter(a)
    \/ CheckAllSources
    \/ CollectOpenMeteo
    \/ CollectOpenWeather
    \/ CollectGdacs
    \/ CollectNasaPower

AdaptersIdle ==
    /\ OPENWEATHER_API_KEY = None
    /\ providers = [a \in Adapters |-> [state |-> "ok", data |-> <<>>]]
    /\ results = [a \in Adapters |-> NotCalled]
    /\ ad_pc = "idle"
    /\ all_alerts = <<>>

----------------------------------------------------------------------------
(* MCP: the personalized recommendations, main.py and recommendation_engine.py *)

MaxRecAlerts == 2
MaxShelters == 1

NearbyAlertsRadius == 2     \* max_distance = 0.01
NearbySheltersRadius == 4   \* max_distance = 0.02
ResponderRadiusEngine == 4  \* max_distance=0.02

RecImpls == {"main", "engine"}
Roles == {"first_responder", "coordinator", "civil_protection", "citizen", "visitor"}

ShelterJson(lat, lon, capacity) == [lat |-> lat, lon |-> lon, capacity |-> capacity]

Item(type, title) == [type |-> type, title |-> title]

RecommendationResponse(recommendations, priority, validity_period) ==
    [recommendations |-> recommendations, priority |-> priority,
     validity_period |-> validity_period]

\* the items of a sequence of optional items that are present, in order
RECURSIVE Present(_)
Present(opts) ==
    IF opts = <<>> THEN <<>>
    ELSE opts[1] \o Present(Tail(opts))

When(cond, item) == IF cond THEN Some(item) ELSE None

\* calculate_distance(...) <= max_distance, on squares
calculate_distance_within(lat1, lon1, lat2, lon2, max_distance) ==
    (lat1 - lat2) * (lat1 - lat2) + (lon1 - lon2) * (lon1 - lon2)
        <= max_distance * max_distance

\* get_nearby_alerts / get_nearby_shelters: [] without a location, else the
\* items within max_distance of it, as indices
get_nearby(items, loc, max_distance) ==
    IF loc = None THEN {}
    ELSE {i \in 1..Len(items) :
            calculate_distance_within(Lat(loc[1]), Lon(loc[1]),
                                      Lat(items[i]), Lon(items[i]), max_distance)}

get_nearby_alerts(alerts, loc, max_distance) == get_nearby(alerts, loc, max_distance)
get_nearby_shelters(shelters, loc, max_distance) == get_nearby(shelters, loc, max_distance)

HighSeverityOf(alerts, idx) == {i \in idx : Severity(alerts[i]) >= 3}

\* main.py generate_responder_recommendations
generate_responder_recommendations_main(alerts, loc) ==
    LET nearby_alerts == get_nearby_alerts(alerts, loc, NearbyAlertsRadius)
        high_priority == HighSeverityOf(alerts, nearby_alerts)
    IN  RecommendationResponse(
            Present(<< When(high_priority # {}, Item("immediate_action", "Respuesta Inmediata Requerida")),
                       Some(Item("preparedness", "Preparacion de Equipos")) >>),
            IF high_priority # {} THEN "HIGH" ELSE "MEDIUM",
            Some("1h"))

\* recommendation_engine.py generate_responder_recommendations
generate_responder_recommendations_engine(alerts, loc) ==
    LET nearby_alerts == get_nearby_alerts(alerts, loc, ResponderRadiusEngine)
        high_priority == HighSeverityOf(alerts, nearby_alerts)
    IN  RecommendationResponse(
            Present(<< When(high_priority # {}, Item("immediate_action", "Respuesta Inmediata Requerida")),
                       When(nearby_alerts # {}, Item("assessment", "Evaluacion de Situacion")),
                       Some(Item("safety", "Protocolos de Seguridad")) >>),
            IF high_priority # {} THEN "HIGH" ELSE "MEDIUM",
            Some("1h"))

\* A mutation of generate_coordinator_recommendations_main: the priority no
\* longer follows the high-severity count.
generate_coordinator_recommendations_main_fixed_priority(alerts) ==
    LET high_severity == Cardinality(HighSeverityIdx(alerts))
        cls == analyze_location_clusters("main", alerts)
    IN  RecommendationResponse(
            Present(<< When(high_severity > 0, Item("resource_management", "Gestion de Recursos")),
                       When(cls # <<>>, Item("strategic", "Analisis Estrategico")) >>),
            "MEDIUM",
            Some("2h"))

\* main.py generate_coordinator_recommendations
generate_coordinator_recommendations_main(alerts) ==
    LET high_severity == Cardinality(HighSeverityIdx(alerts))
        cls == analyze_location_clusters("main", alerts)
    IN  RecommendationResponse(
            Present(<< When(high_severity > 0, Item("resource_management", "Gestion de Recursos")),
                       When(cls # <<>>, Item("strategic", "Analisis Estrategico")) >>),
            IF high_severity > 0 THEN "HIGH" ELSE "MEDIUM",
            Some("2h"))

\* recommendation_engine.py generate_coordinator_recommendations
generate_coordinator_recommendations_engine(internal_alerts, n_external) ==
    LET high_severity == Cardinality(HighSeverityIdx(internal_alerts))
        cls == analyze_location_clusters("engine", internal_alerts)
    IN  RecommendationResponse(
            Present(<< When(high_severity > 0, Item("resource_management", "Gestion de Recursos Criticos")),
                       When(n_external > 0, Item("integration", "Alertas Externas Detectadas")),
                       When(Len(cls) > 1, Item("strategic", "Coordinacion Multi-Zona")) >>),
            IF high_severity > 0 THEN "HIGH" ELSE "MEDIUM",
            Some("2h"))

\* sum(s.get('capacity', 0) for s in shelters)
RECURSIVE TotalCapacity(_)
TotalCapacity(shelters) ==
    IF shelters = <<>> THEN 0
    ELSE Get(shelters[1].capacity, 0) + TotalCapacity(Tail(shelters))

\* recommendation_engine.py generate_civil_protection_recommendations;
\* active_alerts > total_shelter_capacity * 0.5 on doubled counts
generate_civil_protection_recommendations(alerts, shelters) ==
    LET total_shelter_capacity == TotalCapacity(shelters)
        active_alerts == Cardinality({i \in 1..Len(alerts) : Severity(alerts[i]) >= 2})
        trends == analyze_trends_engine(alerts)
    IN  RecommendationResponse(
            Present(<< When(2 * active_alerts > total_shelter_capacity,
                            Item("capacity", "Capacidad de Refugios")),
                       When(trends.increasing, Item("preparation", "Preparacion Preventiva")) >>),
            "MEDIUM",
            Some("4h"))

\* the items both copies of generate_citizen_recommendations build from the
\* nearby alerts
CitizenAlertItems(alerts, nearby_alerts, second_type) ==
    Present(<< When(HighSeverityOf(alerts, nearby_alerts) # {}, Item("safety", "Precauciones de Seguridad")),
               When(nearby_alerts # {}, Item(second_type, "Alertas en tu Area")) >>)

SituationNormal == Item("general", "Situacion Normal")
SheltersAvailable == Item("preparation", "Refugios Disponibles")

\* recommendation_engine.py generate_citizen_recommendations
generate_citizen_recommendations_engine(alerts, shelters, loc) ==
    LET nearby_alerts == get_nearby_alerts(alerts, loc, NearbyAlertsRadius)
        nearby_shelters == get_nearby_shelters(shelters, loc, NearbySheltersRadius)
        recommendations ==
            CitizenAlertItems(alerts, nearby_alerts, "information")
                \o Present(<< When(nearby_shelters # {}, SheltersAvailable) >>)
    IN  RecommendationResponse(
            IF recommendations = <<>> THEN <<SituationNormal>> ELSE recommendations,
            "LOW",
            Some("6h"))

\* A mutation of generate_citizen_recommendations_main: the nearby shelters
\* add an item.
generate_citizen_recommendations_main_uses_shelters(alerts, shelters, loc) ==
    LET nearby_alerts == get_nearby_alerts(alerts, loc, NearbyAlertsRadius)
        nearby_shelters == get_nearby_shelters(shelters, loc, NearbySheltersRadius)
        recommendations ==
            CitizenAlertItems(alerts, nearby_alerts, "awareness")
                \o Present(<< When(nearby_shelters # {}, SheltersAvailable) >>)
    IN  RecommendationResponse(
            IF recommendations = <<>> THEN <<SituationNormal>> ELSE recommendations,
            "LOW",
            Some("6h"))

\* main.py generate_citizen_recommendations: nearby_shelters is computed and
\* not used
generate_citizen_recommendations_main(alerts, shelters, loc) ==
    LET nearby_alerts == get_nearby_alerts(alerts, loc, NearbyAlertsRadius)
        recommendations == CitizenAlertItems(alerts, nearby_alerts, "awareness")
    IN  RecommendationResponse(
            IF recommendations = <<>> THEN <<SituationNormal>> ELSE recommendations,
            "LOW",
            Some("6h"))

\* generate_general_recommendations, the same in both copies
generate_general_recommendations(alerts) ==
    RecommendationResponse(<<Item("general", "Estado del Sistema")>>, "LOW", Some("12h"))

\* what a recommendation call gave: the call, what it read and its result
NoRecommendation ==
    [impl |-> "", role |-> "", http |-> "", shelters_ok |-> FALSE,
     status |-> "none", body |-> <<>>]

Recommended(impl, role, http, shelters_ok, body) ==
    [impl |-> impl, role |-> role, http |-> http, shelters_ok |-> shelters_ok,
     status |-> "returned", body |-> Some(body)]

RecommendationRaised(role) ==
    [impl |-> "engine", role |-> role, http |-> "", shelters_ok |-> FALSE,
     status |-> "raised", body |-> <<>>]

NoEarlierRec == [impl |-> "", role |-> "", priority |-> "", validity_period |-> <<>>]

\* main.py personalized_recommendations: the whole body is in a try, and the
\* except branch answers with one error item, priority LOW, no validity
personalized_recommendations(role, http, shelters_ok, alerts, shelters, loc) ==
    IF http = "exception"
    THEN Recommended("main", role, http, shelters_ok,
                     RecommendationResponse(<<Item("error", "Error del sistema")>>, "LOW", None))
    ELSE LET fetched_alerts == Fetched(http, alerts)
             fetched_shelters == IF shelters_ok THEN shelters ELSE <<>>
         IN  Recommended("main", role, http, shelters_ok,
                 CASE role = "first_responder" ->
                        generate_responder_recommendations_main(fetched_alerts, loc)
                   [] role = "coordinator" ->
                        generate_coordinator_recommendations_main(fetched_alerts)
                   [] role = "citizen" ->
                        generate_citizen_recommendations_main(fetched_alerts, fetched_shelters, loc)
                   [] OTHER ->
                        generate_general_recommendations(fetched_alerts))

\* recommendation_engine.py: the role functions, as the handler dispatches
\* to them
generate_engine(role, alerts, shelters, n_external, loc) ==
    CASE role = "first_responder" -> generate_responder_recommendations_engine(alerts, loc)
      [] role = "coordinator" -> generate_coordinator_recommendations_engine(alerts, n_external)
      [] role = "civil_protection" -> generate_civil_protection_recommendations(alerts, shelters)
      [] role = "citizen" -> generate_citizen_recommendations_engine(alerts, shelters, loc)
      [] OTHER -> generate_general_recommendations(alerts)

RecAlerts ==
    { AlertJson(Some(0), Some(0), Some(1), Some(Today)),
      AlertJson(Some(0), Some(0), Some(3), Some(Today)),
      AlertJson(Some(3), Some(0), Some(3), Some(Today)),
      AlertJson(Some(5), Some(0), Some(2), Some(Today - 2)) }

RecShelters ==
    { ShelterJson(Some(0), Some(0), None),
      ShelterJson(Some(3), Some(0), Some(4)),
      ShelterJson(Some(5), Some(0), Some(1)) }

RecLocations == {None, Some([lat |-> Some(0), lon |-> Some(0)])}

RecInit ==
    /\ alerts_data \in SeqsUpTo(RecAlerts, MaxRecAlerts)
    /\ external_count \in 0..MaxExternal
    /\ shelters_data \in SeqsUpTo(RecShelters, MaxShelters)
    /\ location \in RecLocations
    /\ recommendation = NoRecommendation
    /\ rec_earlier = NoEarlierRec

\* a second request repeats the role and the copy of the first
SameCallAsEarlier(impl, role) ==
    rec_earlier = NoEarlierRec \/ (rec_earlier.impl = impl /\ rec_earlier.role = role)

\* POST /mcp/recommendations/personalized of main.py
PersonalizedRecommendationsMain ==
    /\ recommendation = NoRecommendation
    /\ \E role \in Roles, http \in HttpOutcomes, shelters_ok \in BOOLEAN :
         /\ SameCallAsEarlier("main", role)
         /\ recommendation' = personalized_recommendations(role, http, shelters_ok,
                                                           alerts_data, shelters_data, location)
    /\ UNCHANGED <<alerts_data, external_count, shelters_data, location, rec_earlier>>
    /\ UNCHANGED notRec

\* POST /recommendations/personalized of recommendation_engine.py: the module
\* never defines BACKEND_URL, building the first URL raises NameError
PersonalizedRecommendationsEngine ==
    /\ recommendation = NoRecommendation
    /\ rec_earlier = NoEarlierRec
    /\ \E role \in Roles : recommendation' = RecommendationRaised(role)
    /\ UNCHANGED <<alerts_data, external_count, shelters_data, location, rec_earlier>>
    /\ UNCHANGED notRec

\* a role function of recommendation_engine.py called on fetched data
GenerateEngine ==
    /\ recommendation = NoRecommendation
    /\ \E role \in Roles :
         /\ SameCallAsEarlier("engine", role)
         /\ recommendation' =
              IF role = "civil_protection" /\ analyze_trends_engine(alerts_data).trend = "raised"
              THEN RecommendationRaised(role)
              ELSE Recommended("engine", role, "ok", TRUE,
                               generate_engine(role, alerts_data, shelters_data,
                                               external_count, location))
    /\ UNCHANGED <<alerts_data, external_count, shelters_data, location, rec_earlier>>
    /\ UNCHANGED notRec

\* Between two requests the data changes: an alert is created or the list
\* shrinks, a shelter opens or closes, the user moves.
SnapshotChanges ==
    /\ recommendation.status = "returned"
    /\ rec_earlier = NoEarlierRec
    /\ rec_earlier' = [impl |-> recommendation.impl, role |-> recommendation.role,
                       priority |-> recommendation.body[1].priority,
                       validity_period |-> recommendation.body[1].validity_period]
    /\ recommendation' = NoRecommendation
    /\ \/ /\ Len(alerts_data) < MaxRecAlerts
          /\ \E a \in RecAlerts : alerts_data' = Append(alerts_data, a)
          /\ UNCHANGED <<shelters_data, location>>
       \/ /\ alerts_data # <<>>
          /\ alerts_data' = Tail(alerts_data)
          /\ UNCHANGED <<shelters_data, location>>
       \/ /\ \E s \in SeqsUpTo(RecShelters, MaxShelters) :
                s # shelters_data /\ shelters_data' = s
          /\ UNCHANGED <<alerts_data, location>>
       \/ /\ \E l \in RecLocations : l # location /\ location' = l
          /\ UNCHANGED <<alerts_data, shelters_data>>
    /\ UNCHANGED external_count
    /\ UNCHANGED notRec

RecStep ==
    \/ PersonalizedRecommendationsMain
    \/ PersonalizedRecommendationsEngine
    \/ GenerateEngine
    \/ SnapshotChanges

RecIdle ==
    /\ shelters_data = <<>>
    /\ location = None
    /\ recommendation = NoRecommendation
    /\ rec_earlier = NoEarlierRec

----------------------------------------------------------------------------
(* Specifications: one per component, the other components at rest *)

InitIngest == IngestInit /\ AdaptersIdle /\ AnalysisIdle /\ ClusterIdle /\ ScoreIdle /\ RecIdle
SpecIngest == InitIngest /\ [][IngestStep]_vars

InitAdapters == AdaptersInit /\ IngestIdle /\ AnalysisIdle /\ ClusterIdle /\ ScoreIdle /\ RecIdle
SpecAdapters == InitAdapters /\ [][AdaptersStep]_vars

InitCluster == ClusterInit /\ response = NoResponse /\ IngestIdle /\ AdaptersIdle /\ ScoreIdle /\ RecIdle
SpecCluster == InitCluster /\ [][ClusterStep]_vars

InitTrend == TrendInit /\ IngestIdle /\ AdaptersIdle /\ ClusterIdle /\ ScoreIdle /\ RecIdle
SpecTrend == InitTrend /\ [][TrendStep]_vars

InitTrendDays == TrendDaysInit /\ IngestIdle /\ AdaptersIdle /\ ClusterIdle /\ ScoreIdle /\ RecIdle
SpecTrendDays == InitTrendDays /\ [][TrendStep]_vars

InitRisk == RiskInit /\ IngestIdle /\ AdaptersIdle /\ ClusterIdle /\ ScoreIdle /\ RecIdle
SpecRisk == InitRisk /\ [][RiskStep]_vars

InitScore == ScoreInit /\ IngestIdle /\ AdaptersIdle /\ AnalysisIdle /\ ClusterIdle /\ RecIdle
SpecScore == InitScore /\ [][ScoreStep]_vars

InitRecommend == RecInit /\ response = NoResponse /\ IngestIdle /\ AdaptersIdle /\ ClusterIdle /\ ScoreIdle
SpecRecommend == InitRecommend /\ [][RecStep]_vars

----------------------------------------------------------------------------
(* Claims about the store *)

RowsWith(title, source) ==
    {i \in 1..Len(store) : store[i].title = title /\ store[i].source = source}

\* C1: whatever the interleaving of the existence checks and the commits of
\* two ingestion runs carrying the same title, the store holds at most one
\* GOOGLE record with that title.
C1_AtMostOneGoogleRowPerTitle ==
    \A t \in Titles : Cardinality(RowsWith(t, "GOOGLE")) <= 1

\* C2: in every reachable store state no two persisted records share a title.
C2_NoTwoRowsShareTitle ==
    \A i, j \in 1..Len(store) : store[i].title = store[j].title => i = j

RowStored(id) == \E i \in 1..Len(store) : store[i].id = id

\* C16: in create_alert the row is committed before the dispatch starts, and
\* whatever the dispatch does (SMS or push failing, an exception in it) the
\* row stays in the table and the request is answered 201.
C16_NotifyNeverFailsIngestion ==
    /\ req.state = "committed" => RowStored(req.id)
    /\ req.notified \in DispatchOutcomes => (req.state = "201" /\ RowStored(req.id))

C16_Witness ==
    /\ req.notified = "dispatch_raised"
    /\ req.state = "201"
    /\ RowStored(req.id)

\* C17: every persisted row has severity in {1, 2, 3, 4}, whatever the
\* payload or the submission carried.
C17_SeverityInRange ==
    \A i \in 1..Len(store) : store[i].severity \in 1..4

\* the configured default point (14.625, -90.525), in whole degrees
DefaultPoint == [lat |-> 14, lon |-> -90]

\* C18: every row ingested from the Google provider has a location, the
\* payload's coordinates or, when the payload omits them, the default point.
C18_DefaultLocation ==
    \A i \in RowsWith("flood", "GOOGLE") \cup RowsWith("quake", "GOOGLE") :
        \E k \in 1..Len(feed) :
            /\ feed[k].title = store[i].title
            /\ store[i].lat = IF feed[k].coordinates = None THEN DefaultPoint.lat
                              ELSE feed[k].coordinates[1].lat
            /\ store[i].lon = IF feed[k].coordinates = None THEN DefaultPoint.lon
                              ELSE feed[k].coordinates[1].lng

\* C19: no fetch stays blocked on a provider that never answers: neither
\* check_all_sources nor a run of fetch_google_alerts is ever left waiting
\* without a timeout.
C19_NoFetchBlocksForever ==
    /\ ad_pc # "hung"
    /\ \A r \in Runs : pcs[r] # "hung"

----------------------------------------------------------------------------
(* Claims about the source adapters *)

\* what an adapter contributes when its provider answers and it is called
Contribution(a) ==
    IF providers[a].state = "ok" /\ (a = "openweather" => OPENWEATHER_API_KEY # None)
    THEN [k \in 1..Len(providers[a].data) |->
             [title |-> providers[a].data[k], source |-> SourceOf(a)]]
    ELSE <<>>

\* C5: when check_all_sources returns, whatever adapters failed, the result
\* holds every alert of every adapter that succeeded: it is the successful
\* adapters' lists in call order, nothing of them dropped.
C5_AdapterIsolation ==
    ad_pc = "done" =>
        all_alerts = Contribution("open_meteo") \o Contribution("openweather")
                       \o Contribution("gdacs") \o Contribution("nasa_power")

C5_Witness ==
    /\ ad_pc = "done"
    /\ providers["gdacs"].state = "unreachable"
    /\ providers["open_meteo"].state = "ok"
    /\ providers["nasa_power"].state = "ok"
    /\ Len(Contribution("open_meteo")) > 0
    /\ Len(Contribution("nasa_power")) > 0
    /\ Len(all_alerts) = Len(Contribution("open_meteo")) + Len(Contribution("nasa_power"))

\* the four ExternalDataFetcher adapters: a failed provider or a missing key
\* gives a None return, never an exception
AdaptersNeverRaise ==
    \A a \in Adapters :
        (/\ results[a] # NotCalled
         /\ \/ providers[a].state \in {"unreachable", "malformed"}
            \/ a = "openweather" /\ OPENWEATHER_API_KEY = None)
            => results[a] = Returns(None)

\* C6: every source adapter, the Google one included, whose provider is
\* unreachable or answers malformed data, or whose key or URL is not
\* configured, contributes nothing and does not raise to its caller.
C6_NoAdapterRaises ==
    /\ AdaptersNeverRaise
    /\ \A r \in Runs : pcs[r] # "raised"

----------------------------------------------------------------------------
(* Claims about clustering *)

PairwiseWithinRadius(data) ==
    \A i, j \in 1..Len(data) :
        (Lat(data[i]) - Lat(data[j])) * (Lat(data[i]) - Lat(data[j]))
          + (Lon(data[i]) - Lon(data[j])) * (Lon(data[i]) - Lon(data[j])) < Radius * Radius

OneClusterOfAll(out, n) ==
    /\ Len(out) = 1
    /\ Len(out[1].alerts) = n
    /\ {out[1].alerts[k] : k \in 1..n} = 1..n

\* C3 as stated: whenever all pairwise distances of the input are below the
\* radius, the function returns exactly one cluster holding every input alert,
\* for every input length.
C3_OneClusterAnyLength ==
    (cl_out # None /\ PairwiseWithinRadius(alerts_data))
        => OneClusterOfAll(cl_out[1], Len(alerts_data))

\* C3 amended: the same for inputs of at least two alerts; a single alert (and
\* the empty input) returns no cluster, the singleton being filtered out.
C3_OneClusterOfTwoOrMore ==
    (cl_out # None /\ PairwiseWithinRadius(alerts_data)) =>
        IF Len(alerts_data) >= 2
        THEN OneClusterOfAll(cl_out[1], Len(alerts_data))
        ELSE cl_out[1] = <<>>

C3_Witness ==
    /\ cl_out # None
    /\ cl_impl = "main"
    /\ Len(alerts_data) = 3
    /\ PairwiseWithinRadius(alerts_data)
    /\ \A i, j \in 1..3 : i # j => alerts_data[i] # alerts_data[j]
    /\ OneClusterOfAll(cl_out[1], 3)

\* the clusters of a result as sets of alerts
Membership(data, out) ==
    {{data[out[k].alerts[m]] : m \in 1..Len(out[k].alerts)} : k \in 1..Len(out)}

\* a point on the line lon = 0: 0 and 2 are a radius apart, 1 is near both
Pt(x) == AlertJson(Some(x), Some(0), Some(1), Some(Today))

----------------------------------------------------------------------------
(* Claims about risk scoring *)

Rank(level) ==
    CASE level \in {"LOW", "BAJO"}         -> 0
      [] level \in {"MEDIUM", "MEDIO"}     -> 1
      [] level \in {"HIGH", "ALTO"}        -> 2
      [] level \in {"CRITICAL", "CRITICO"} -> 3

\* C4: of two requests that differ only in the count of severity >= 3 alerts,
\* the one with the larger count gets a risk level that is not lower, from
\* risk_assessment and from calculate_risk_level.
C4_RiskMonotone ==
    (/\ earlier.levels.scored
     /\ counts.high > earlier.counts.high
     /\ counts = [earlier.counts EXCEPT !.high = counts.high])
        => /\ Rank(levels.main) >= Rank(earlier.levels.main)
           /\ Rank(levels.dashboard) >= Rank(earlier.levels.dashboard)

C4_Witness ==
    /\ earlier.levels.scored
    /\ counts.high > earlier.counts.high
    /\ earlier.levels.main = "LOW" /\ levels.main = "HIGH"
    /\ earlier.levels.dashboard = "MEDIUM" /\ levels.dashboard = "CRITICAL"

IsScenario(data) ==
    /\ Len(data) = 5
    /\ [k \in 1..5 |-> Severity(data[k])] = <<4, 4, 3, 2, 1>>
    /\ \A k \in 1..5 : /\ data[k].lat = data[1].lat
                       /\ data[k].lon = data[1].lon
                       /\ data[k].created_at = data[1].created_at

ScenarioAssessed ==
    /\ response.handler = "risk_assessment"
    /\ response.http = "ok"
    /\ IsScenario(alerts_data)
    /\ external_count = 0

ScenarioClustersAndCounts ==
    /\ \A impl \in ClusterImpls :
         LET out == analyze_location_clusters(impl, alerts_data)
         IN  Len(out) = 1 /\ Len(out[1].alerts) = 5
    /\ Cardinality(HighSeverityIdx(alerts_data)) = 3
    /\ response.status = "returned"
    /\ response.body.factors # <<>>

\* C8 as stated: on the five-alert scenario (one coordinate, severities
\* 4, 4, 3, 2, 1, one date, no external alerts) clustering gives one cluster of
\* five, three alerts have severity >= 3, the factor list is non-empty and the
\* level is HIGH or CRITICAL.
C8_ScenarioHighOrCritical ==
    ScenarioAssessed =>
        /\ ScenarioClustersAndCounts
        /\ response.body.risk_level \in {"HIGH", "CRITICAL", "ALTO", "CRITICO"}

\* C8 amended: the same scenario gives one cluster of five, three alerts of
\* severity >= 3, two factors (high severity, concentration), score 1.9 and so
\* level MEDIUM (MEDIO in advanced_mcp.py) with confidence 1.9 / 3.
C8_ScenarioMedium ==
    ScenarioAssessed =>
        /\ ScenarioClustersAndCounts
        /\ response.body.factors = << <<"high_severity", 3>>, <<"concentration", 1>> >>
        /\ response.body.confidence = Some(19)
        /\ response.body.risk_level = IF response.impl = "main" THEN "MEDIUM" ELSE "MEDIO"

C8_Witness ==
    /\ ScenarioAssessed
    /\ response.impl = "main"
    /\ response.body.risk_level = "MEDIUM"

EmptySnapshotSeen ==
    /\ response.http # "exception"
    /\ Fetched(response.http, alerts_data) = <<>>

\* C9: for an empty snapshot and no external alerts the dashboard reports the
\* four counts as 0, level LOW with confidence 0 and no factors, and trend
\* stable.
C9_EmptyDashboard ==
    (/\ response.handler = "analytics_dashboard"
     /\ EmptySnapshotSeen
     /\ external_count = 0)
        => /\ response.status = "returned"
           /\ response.body.summary = [total_alerts |-> 0, external_alerts |-> 0,
                                       recent_24h |-> 0, high_severity |-> Some(0)]
           /\ response.body.risk_assessment =
                  [level |-> "LOW", factors |-> <<>>, confidence |-> Some(0)]
           /\ response.body.trends.trend = "stable"

\* C10: on an empty snapshot main.py's risk_assessment returns level LOW,
\* confidence 0, no factors and no recommendations.
C10_EmptyAssessment ==
    (/\ response.handler = "risk_assessment"
     /\ response.impl = "main"
     /\ EmptySnapshotSeen)
        => /\ response.status = "returned"
           /\ response.body = [risk_level |-> "LOW", confidence |-> Some(0),
                               factors |-> <<>>, recommendations |-> <<>>]

C10_Witness ==
    /\ response.handler = "risk_assessment"
    /\ response.impl = "main"
    /\ response.http = "ok"
    /\ alerts_data = <<>>
    /\ response.body.risk_level = "LOW"

----------------------------------------------------------------------------
(* Claims about trends *)

TrendAnswered(impl) ==
    /\ response.handler = "analyze_trends"
    /\ response.impl = impl

----------------------------------------------------------------------------
(* Claims about the RiskAssessment value *)

SpecLevels == {"LOW", "MEDIUM", "HIGH", "CRITICAL"}

\* C11: every RiskAssessment a risk-assessment path returns, the dashboards'
\* and the one returned when the backend fetch fails included, has a level in
\* {LOW, MEDIUM, HIGH, CRITICAL} and a confidence in [0, 1].
C11_LevelAndConfidenceInRange ==
    response.status = "returned" =>
        /\ response.handler = "risk_assessment" =>
             /\ response.body.risk_level \in SpecLevels
             /\ response.body.confidence # None
             /\ response.body.confidence[1] \in 0..30
        /\ response.handler = "analytics_dashboard" =>
             /\ response.body.risk_assessment.level \in SpecLevels
             /\ response.body.risk_assessment.confidence # None
             /\ response.body.risk_assessment.confidence[1] \in 0..30

\* the score of the stated formula, in tenths, from the counts alone
StatedScore10(c) ==
    5 * ((IF c.high > 0 THEN 1 ELSE 0) + (IF c.clusters > 0 THEN 1 ELSE 0)
           + (IF c.increasing THEN 1 ELSE 0))
      + 3 * c.high

\* C20: main.py's risk_assessment returns LOW for score < 1, MEDIUM for
\* 1 <= score < 2, HIGH for 2 <= score < 5 and CRITICAL for score >= 5, with
\* confidence min(score / 3, 1).
C20_FourTiers ==
    levels.scored =>
        /\ levels.main = (IF StatedScore10(counts) >= 50 THEN "CRITICAL"
                          ELSE IF StatedScore10(counts) >= 20 THEN "HIGH"
                          ELSE IF StatedScore10(counts) >= 10 THEN "MEDIUM"
                          ELSE "LOW")
        /\ levels.confidence = Some(Min(StatedScore10(counts), 30))

\* the tiers below the CRITICAL threshold and the confidence, as the code has them
ThreeTiersBelowCritical ==
    (levels.scored /\ StatedScore10(counts) < 50) =>
        /\ levels.main = (IF StatedScore10(counts) >= 20 THEN "HIGH"
                          ELSE IF StatedScore10(counts) >= 10 THEN "MEDIUM"
                          ELSE "LOW")
        /\ levels.confidence = Some(Min(StatedScore10(counts), 30))

----------------------------------------------------------------------------
(* Claims about the recommendations *)

\* the response body of the last recommendation call, when it returned
RecBody == recommendation.body[1]

\* C12: whatever the role and the data, a recommendation response carries at
\* least one item.  The coordinator functions of both copies and the civil
\* protection function append items only under conditions, and return the
\* empty list when none holds.
C12_RecommendationsNonEmpty ==
    recommendation.status = "returned" => Len(RecBody.recommendations) > 0

\* no alert of what the citizen function saw lies within 0.01 degrees of the
\* request's location (none does when the request has no location)
NoAlertNearby ==
    LET seen == Fetched(recommendation.http, alerts_data)
    IN  \/ location = None
        \/ \A i \in 1..Len(seen) :
             (Lat(seen[i]) - Lat(location[1])) * (Lat(seen[i]) - Lat(location[1]))
               + (Lon(seen[i]) - Lon(location[1])) * (Lon(seen[i]) - Lon(location[1]))
               > NearbyAlertsRadius * NearbyAlertsRadius

\* a shelter of the snapshot lies within 0.02 degrees of the location
ShelterNearby ==
    /\ location # None
    /\ \E i \in 1..Len(shelters_data) :
         (Lat(shelters_data[i]) - Lat(location[1])) * (Lat(shelters_data[i]) - Lat(location[1]))
           + (Lon(shelters_data[i]) - Lon(location[1])) * (Lon(shelters_data[i]) - Lon(location[1]))
           <= NearbySheltersRadius * NearbySheltersRadius

\* the citizen function ran on fetched data and found no alert nearby
CitizenNoAlertNearby ==
    /\ recommendation.status = "returned"
    /\ recommendation.role = "citizen"
    /\ recommendation.http # "exception"
    /\ NoAlertNearby

ValidityOf(impl, role) ==
    CASE role = "first_responder" -> "1h"
      [] role = "coordinator" -> "2h"
      [] role = "civil_protection" /\ impl = "engine" -> "4h"
      [] role = "citizen" -> "6h"
      [] OTHER -> "12h"

\* an alert of severity 3 or more among those the call saw; for the first
\* responder only those near the location count (0.01 degrees in main.py,
\* 0.02 in recommendation_engine.py)
HighSeveritySeen ==
    LET seen == Fetched(recommendation.http, alerts_data)
        reach == IF recommendation.impl = "main"
                 THEN NearbyAlertsRadius ELSE ResponderRadiusEngine
    IN  \E i \in 1..Len(seen) :
          /\ Severity(seen[i]) >= 3
          /\ recommendation.role = "first_responder" =>
               /\ location # None
               /\ (Lat(seen[i]) - Lat(location[1])) * (Lat(seen[i]) - Lat(location[1]))
                    + (Lon(seen[i]) - Lon(location[1])) * (Lon(seen[i]) - Lon(location[1]))
                    <= reach * reach

\* the priority the data gives a role
PriorityOf(impl, role) ==
    CASE role \in {"first_responder", "coordinator"} ->
           IF HighSeveritySeen THEN "HIGH" ELSE "MEDIUM"
      [] role = "civil_protection" /\ impl = "engine" -> "MEDIUM"
      [] OTHER -> "LOW"

\* two responses to the same role from the same copy, neither the error
\* response
TwoAnswers ==
    /\ rec_earlier # NoEarlierRec
    /\ rec_earlier.validity_period # None
    /\ recommendation.status = "returned"
    /\ recommendation.http # "exception"

\* C14 as stated: two requests with the same role and different data get the
\* same priority and the same validity period.
C14_SamePairForEveryData ==
    TwoAnswers =>
        /\ RecBody.priority = rec_earlier.priority
        /\ RecBody.validity_period = rec_earlier.validity_period

\* C14: the validity period is fixed per role, and so is the priority of the
\* citizen, civil protection and general roles; the priority of the first
\* responder and of the coordinator is HIGH when an alert of severity 3 or
\* more is near the location (first responder) or in the snapshot
\* (coordinator), and MEDIUM otherwise.  When main.py cannot fetch, it answers
\* every role with priority LOW and no validity period.
C14_ValidityFixedPriorityFollowsSeverity ==
    /\ recommendation.status = "returned" =>
         IF recommendation.http = "exception"
         THEN RecBody.priority = "LOW" /\ RecBody.validity_period = None
         ELSE /\ RecBody.validity_period =
                   Some(ValidityOf(recommendation.impl, recommendation.role))
              /\ RecBody.priority = PriorityOf(recommendation.impl, recommendation.role)
    /\ TwoAnswers =>
         /\ RecBody.validity_period = rec_earlier.validity_period
         /\ recommendation.role \notin {"first_responder", "coordinator"} =>
              RecBody.priority = rec_earlier.priority

\* a first responder answered MEDIUM, then HIGH after the data changed
C14_Witness ==
    /\ TwoAnswers
    /\ recommendation.role = "first_responder"
    /\ rec_earlier.priority = "MEDIUM"
    /\ RecBody.priority = "HIGH"
    /\ RecBody.validity_period = rec_earlier.validity_period

----------------------------------------------------------------------------
(* Claims about the risk factors *)

\* a risk assessment was computed from fetched data
RiskAssessed ==
    /\ response.handler = "risk_assessment"
    /\ response.status = "returned"
    /\ response.http # "exception"

FactorNames == {response.body.factors[k][1] : k \in 1..Len(response.body.factors)}

\* C21: when external-source alerts exist, the factor list of main.py's risk
\* assessment holds the external factor (one factor, and 0.5 of score, more
\* than the same snapshot has without them).  advanced_mcp.py appends the
\* factor; main.py's risk_assessment never reads the external alerts.
C21_ExternalCountAddsFactor ==
    (RiskAssessed /\ response.impl = "main" /\ external_count > 0) =>
        "external" \in FactorNames

----------------------------------------------------------------------------
(* Claims about the clustering loop *)

MemberLatSum(c) == SumSeq([k \in 1..Len(c.alerts) |-> Lat(alerts_data[c.alerts[k]])])
MemberLonSum(c) == SumSeq([k \in 1..Len(c.alerts) |-> Lon(alerts_data[c.alerts[k]])])

\* the centre of c is the arithmetic mean of its members' coordinates
\* (centre = sum / n, compared without dividing)
CenterIsMean(c) ==
    /\ c.center.lat_sum * Len(c.alerts) = MemberLatSum(c) * c.center.n
    /\ c.center.lon_sum * Len(c.alerts) = MemberLonSum(c) * c.center.n

\* C22: in every copy, after each assignment every cluster's centre is the
\* mean of the latitudes and of the longitudes of its current members.
C22_CentroidIsMeanOfMembers ==
    \A j \in 1..Len(clusters) : CenterIsMean(clusters[j])

\* the clusters whose centre is at distance strictly less than the radius of
\* the point (lat, lon)
ClustersInReach(lat, lon) ==
    {j \in 1..Len(clusters) :
        LET c == clusters[j].center
        IN  (lat * c.n - c.lat_sum) * (lat * c.n - c.lat_sum)
              + (lon * c.n - c.lon_sum) * (lon * c.n - c.lon_sum)
              < Radius * Radius * c.n * c.n}

\* what one pass of the loop does with alert number i
JoinsFirstInReach(i) ==
    LET lat == Lat(alerts_data[i])
        lon == Lon(alerts_data[i])
        reach == ClustersInReach(lat, lon)
    IN  IF reach = {}
        THEN /\ Len(clusters') = Len(clusters) + 1
             /\ \A k \in 1..Len(clusters) : clusters'[k] = clusters[k]
             /\ clusters'[Len(clusters')].alerts = <<i>>
        ELSE LET j == CHOOSE j \in reach : \A k \in reach : j <= k
             IN  /\ Len(clusters') = Len(clusters)
                 /\ clusters'[j].alerts = Append(clusters[j].alerts, i)
                 /\ \A k \in 1..Len(clusters) : k # j => clusters'[k] = clusters[k]

\* C23: each alert, in input order, joins the earliest-created cluster whose
\* current centre is strictly nearer than the radius, whichever cluster is
\* nearest; with no such cluster (a distance equal to the radius is outside)
\* it starts a new cluster of its own.
C23_JoinsEarliestClusterInReach ==
    [][cl_idx' = cl_idx + 1 => JoinsFirstInReach(cl_idx')]_vars

\* squared distance from alert i to the mean of the alerts `members`, times
\* Len(members)^2 * n2^2 so that two distances compare without dividing
ScaledDist(i, members, n2) ==
    LET n == Len(members)
        la == SumSeq([k \in 1..n |-> Lat(alerts_data[members[k]])])
        lo == SumSeq([k \in 1..n |-> Lon(alerts_data[members[k]])])
    IN  ((Lat(alerts_data[i]) * n - la) * (Lat(alerts_data[i]) * n - la)
          + (Lon(alerts_data[i]) * n - lo) * (Lon(alerts_data[i]) * n - lo)) * n2 * n2

\* the alert just assigned joined the first cluster although the second
\* cluster's centre was nearer to it
C23_Witness ==
    /\ cl_impl \in {"main", "advanced"}
    /\ cl_idx >= 3
    /\ Len(clusters) >= 2
    /\ Len(clusters[1].alerts) >= 2
    /\ clusters[1].alerts[Len(clusters[1].alerts)] = cl_idx
    /\ LET before == SubSeq(clusters[1].alerts, 1, Len(clusters[1].alerts) - 1)
           second == clusters[2].alerts
       IN  ScaledDist(cl_idx, second, Len(before)) < ScaledDist(cl_idx, before, Len(second))

\* how many clusters hold alert number i
TimesAssigned(i) ==
    Cardinality({<<j, k>> \in (1..Len(clusters)) \X (1..MaxAlerts + 1) :
                    k <= Len(clusters[j].alerts) /\ clusters[j].alerts[k] = i})

HasTwoOrMore(c) == Len(c.alerts) >= 2

\* C24: the clusters built so far partition the alerts processed so far, each
\* cluster lists its members in assignment order and the clusters stand in
\* creation order; the returned list is exactly the clusters of two or more
\* members, in that order.
C24_PartitionAndFilteredOutput ==
    /\ \A i \in 1..cl_idx : TimesAssigned(i) = 1
    /\ \A j \in 1..Len(clusters) :
         /\ clusters[j].alerts # <<>>
         /\ \A k \in 1..Len(clusters[j].alerts) : clusters[j].alerts[k] \in 1..cl_idx
         /\ \A k \in 2..Len(clusters[j].alerts) :
              clusters[j].alerts[k - 1] < clusters[j].alerts[k]
         /\ j > 1 => clusters[j - 1].alerts[1] < clusters[j].alerts[1]
    /\ cl_out # None => cl_out[1] = SelectSeq(clusters, HasTwoOrMore)

\* main.py returned one cluster and left a singleton out
C24_Witness ==
    /\ cl_impl = "main"
    /\ cl_out # None
    /\ Len(cl_out[1]) = 1
    /\ Len(clusters) = 2
    /\ Len(clusters[1].alerts) = 1
    /\ Len(clusters[2].alerts) = 2

----------------------------------------------------------------------------
(* Claims about the trend analysis *)

\* the creation dates of the snapshot, and how many alerts each created
SnapshotDates == {d \in 1..NumDays : \E i \in 1..Len(alerts_data) : alerts_data[i].created_at = <<d>>}
CreatedOn(d) == Cardinality({i \in 1..Len(alerts_data) : alerts_data[i].created_at = <<d>>})

\* the `window` most recent dates of the snapshot
SelectedDates(window) ==
    {d \in SnapshotDates : Cardinality({e \in SnapshotDates : e > d}) < window}

WindowOf(impl) == IF impl = "main" THEN TrendWindowMain ELSE TrendWindowAdvanced

\* latest against earliest of a set of dates
TrendOver(dates) ==
    LET earliest == CHOOSE d \in dates : \A e \in dates : d <= e
        latest == CHOOSE d \in dates : \A e \in dates : e <= d
    IN  IF CreatedOn(latest) > CreatedOn(earliest) THEN "increasing" ELSE "decreasing"

TrendReturned ==
    /\ response.handler = "analyze_trends"
    /\ response.impl \in {"main", "advanced"}
    /\ response.status = "returned"
    /\ Cardinality(SnapshotDates) >= 2

\* C25: on a snapshot with two or more creation dates analyze_trends compares
\* the count of the latest date with the count of the earliest of the last
\* window_days dates (3 in main.py, 7 in advanced_mcp.py): increasing when the
\* latest is strictly greater, decreasing otherwise; older dates play no part.
C25_LatestAgainstEarliestOfWindow ==
    TrendReturned =>
        /\ response.body.trend = TrendOver(SelectedDates(WindowOf(response.impl)))
        /\ response.body.increasing = (response.body.trend = "increasing")

\* main.py answered on four dates, and the date outside the window would
\* have turned the answer
C25_Witness ==
    /\ TrendReturned
    /\ response.impl = "main"
    /\ Cardinality(SnapshotDates) > TrendWindowMain
    /\ response.body.trend = "increasing"
    /\ TrendOver(SnapshotDates) = "decreasing"

\* the snapshot without the records that carry no creation timestamp
WithTimestamp(a) == a.created_at # None
Cleaned == SelectSeq(alerts_data, WithTimestamp)

\* C26: a record without a creation timestamp is skipped by the trend
\* analysis: the pass completes without error and its result is the result on
\* the snapshot with that record removed.
C26_MalformedRecordSkipped ==
    response.handler = "analyze_trends" =>
        /\ response.status = "returned"
        /\ response.body = analyze_trends(response.impl, Cleaned)

----------------------------------------------------------------------------
(* Claims about the role procedures *)

\* a role procedure answered on fetched data
RoleAnswered(role) ==
    /\ recommendation.status = "returned"
    /\ recommendation.role = role
    /\ recommendation.http # "exception"

ItemTypes == {RecBody.recommendations[k].type : k \in 1..Len(RecBody.recommendations)}

\* an alert of severity 3 or more within 0.02 degrees (4 grid units) of the
\* request's location
SevereWithinTwoHundredths ==
    LET seen == Fetched(recommendation.http, alerts_data)
    IN  /\ location # None
        /\ \E i \in 1..Len(seen) :
             /\ Severity(seen[i]) >= 3
             /\ (Lat(seen[i]) - Lat(location[1])) * (Lat(seen[i]) - Lat(location[1]))
                  + (Lon(seen[i]) - Lon(location[1])) * (Lon(seen[i]) - Lon(location[1]))
                  <= 4 * 4

\* C27: a first responder gets the "immediate_action" item and priority HIGH
\* exactly when an alert within 0.02 degrees of the location has severity 3 or
\* more, and the standing safety or preparedness item is always last.
C27_ResponderWithinTwoHundredths ==
    RoleAnswered("first_responder") =>
        /\ ("immediate_action" \in ItemTypes) = SevereWithinTwoHundredths
        /\ (RecBody.priority = "HIGH") = SevereWithinTwoHundredths
        /\ RecBody.recommendations # <<>>
        /\ RecBody.recommendations[Len(RecBody.recommendations)].type
             \in {"safety", "preparedness"}

\* alerts of severity 2 or more among those fetched, and the capacity of all
\* shelters, a shelter without a capacity counting for none
ActiveAlertsSeen ==
    LET seen == Fetched(recommendation.http, alerts_data)
    IN  Cardinality({i \in 1..Len(seen) : Severity(seen[i]) >= 2})

CapacitySeen ==
    IF recommendation.shelters_ok
    THEN SumSeq([k \in 1..Len(shelters_data) |->
                    IF shelters_data[k].capacity = None THEN 0
                    ELSE shelters_data[k].capacity[1]])
    ELSE 0

\* C28: a civil_protection request is answered by the civil protection
\* procedure, not the general one: the capacity item is there exactly when the
\* alerts of severity 2 or more number more than half the total shelter
\* capacity, and the general status item is not.
C28_CivilProtectionProcedure ==
    RoleAnswered("civil_protection") =>
        /\ ("capacity" \in ItemTypes) = (2 * ActiveAlertsSeen > CapacitySeen)
        /\ "general" \notin ItemTypes

----------------------------------------------------------------------------
(* Claims about one ingestion run *)

\* the table has a row titled as candidate k of the feed
CandidateStored(rows, k) == \E i \in 1..Len(rows) : rows[i].title = feed[k].title

GoogleRowCount(rows) == Cardinality({i \in 1..Len(rows) : rows[i].source = "GOOGLE"})

\* the run whose step this is
Acts(r) == pcs'[r] # pcs[r] \/ pos'[r] # pos[r]

\* C29: when the store fails while a run persists candidate k, the run ends
\* with the exception and stays ended, the table is what it was, and every
\* candidate before k is still in it; no step ever removes or changes a row.
C29_FailureSurfacedEarlierKept ==
    [][/\ Len(store') >= Len(store)
       /\ \A i \in 1..Len(store) : store'[i] = store[i]
       /\ \A r \in Runs :
            /\ (pcs[r] = "insert" /\ pcs'[r] = "commit_raised") =>
                 /\ store' = store
                 /\ \A k \in 1..(pos[r] - 1) : CandidateStored(store', k)
            /\ pcs[r] = "commit_raised" => pcs'[r] = "commit_raised"]_vars

\* a run failed on its second candidate, the first is in the table
C29_Witness ==
    /\ pcs["run1"] = "commit_raised"
    /\ pos["run1"] = 2
    /\ pcs["run2"] = "start"
    /\ GoogleRowCount(store) = 1
    /\ store[1].title = feed[1].title
    /\ feed[2].title # feed[1].title

\* C30: a candidate whose title is already in the table leaves the table as
\* it is and the run goes on to the next candidate (or ends after the last);
\* once every title of the batch is in the table and no insert is pending, a
\* run adds no record.
C30_DuplicateIsNoOp ==
    [][/\ \A r \in Runs :
            (pcs[r] = "check" /\ Acts(r) /\ CandidateStored(store, pos[r])) =>
                /\ store' = store
                /\ IF pos[r] < Len(feed)
                   THEN pcs'[r] = "check" /\ pos'[r] = pos[r] + 1
                   ELSE pcs'[r] = "done"
       /\ ((\A k \in 1..Len(feed) : CandidateStored(store, k))
             /\ (\A r \in Runs : pcs[r] # "insert")) =>
            /\ GoogleRowCount(store') = GoogleRowCount(store)
            /\ \A r \in Runs : pcs'[r] # "insert"]_vars

\* both runs went through a batch that names one title twice; one row
C30_Witness ==
    /\ pcs["run1"] = "done"
    /\ pcs["run2"] = "done"
    /\ pos["run1"] = 2
    /\ pos["run2"] = 2
    /\ feed[1].title = feed[2].title
    /\ GoogleRowCount(store) = 1
    /\ Len(store) = 1

============================================================================
